---- MODULE Spec2Model ----
(***************************************************************************)
(* clone.js 0.6.1 alpha: the delegation engine ($object.clone / create),   *)
(* the super-dispatch controller (_applySuper, createSuperSafeCallback)    *)
(* and the descriptor compiler ($object.describe).                         *)
(*                                                                         *)
(* Spec          the object store and the dispatch controller, one action  *)
(*               per top-level call and per step of a running call.        *)
(* DescribeSpec  $object.describe as a function of bounded raw maps.       *)
(* CopySpec      copy, getState and mix on a small heap of objects.        *)
(* NestedSpec    the dispatch controller with two method names.            *)
(* TypeSpec      clone with a string constructor, and create.              *)
(***************************************************************************)
EXTENDS Integers, Sequences, FiniteSets, TLC

\* ------------------------------------------------------------------ bounds
MaxObj == 4        \* objects made by clone/create besides $object
MaxStack == 9      \* frames of the call stack (the host's stack limit)
MaxLog == 5        \* entries kept of the shared log
MaxCallbackObj == 3  \* objects made besides $object where callbacks are wrapped
MaxCreateObj == 3  \* objects made besides $object where properties are added

\* ------------------------------------------------------------- JS values
Undef == [t |-> "undefined", v |-> 0]
NullV == [t |-> "null", v |-> 0]
NoProp == [t |-> "absent", v |-> 0]
Obj(i) == [t |-> "object", v |-> i]
Num(n) == [t |-> "number", v |-> n]
Str(i) == [t |-> "string", v |-> i]
Fn(i) == [t |-> "function", v |-> i]
Bool(b) == [t |-> "boolean", v |-> IF b THEN 1 ELSE 0]
NaN == [t |-> "nan", v |-> 0]

IsObj(x) == x.t = "object"

\* ToBoolean, as the || of create() applies it (Str(0) is the empty string)
Truthy(x) ==
    CASE x.t \in {"undefined", "null", "absent"} -> FALSE
      [] x.t \in {"number", "string", "boolean"} -> x.v # 0
      [] x.t = "nan" -> FALSE
      [] OTHER -> TRUE

\* Object.prototype and $object
ObjectPrototype == 0
RootObject == 1
ObjIds == 0..(MaxObj + 1)
UserIds == 2..(MaxObj + 1)

\* --------------------------------------------------------- method bodies
\* A user method appends the level that defines it to the shared log and then
\* runs its instructions: "super" is this._applySuper(name).
Leaf == << >>
Super1 == <<"super">>
Super2 == <<"super", "super">>
Bodies == {Leaf, Super1, Super2}
\* the functions handed to createSuperSafeCallback
FnBodies == {Leaf, Super1}
\* the values a user constructor returns
CtorReturns == {Undef, NullV, Num(0), Num(1), Str(0), Bool(FALSE), Obj(RootObject)}

NoDef == [kind |-> "none", ops |-> << >>, ret |-> Undef]
Method(ops) == [kind |-> "method", ops |-> ops, ret |-> Undef]
Ctor(r) == [kind |-> "ctor", ops |-> << >>, ret |-> r]
CloneObject == [kind |-> "CloneObject", ops |-> << >>, ret |-> Undef]
HostObject == [kind |-> "Object", ops |-> << >>, ret |-> Undef]

\* the raw property maps clone() is given: none, a method m, a constructor
NoProps == [m |-> NoDef, constructor |-> NoDef]
MethodMaps == {NoProps} \cup {[m |-> Method(b), constructor |-> NoDef] : b \in Bodies}
CtorMaps == {NoProps} \cup {[m |-> NoDef, constructor |-> Ctor(r)] : r \in CtorReturns}

VARIABLES
    alive,      \* the allocated objects
    proto,      \* [[Prototype]] of each object: Obj(p) or NullV
    sealed,     \* Object.isSealed
    cursor,     \* the own property __super__ of each object, NoProp when absent
    props,      \* the own data properties "m" and "constructor" of each object
    extra,      \* whether the own property "p" was added later
    stack,      \* the call stack, innermost frame last
    log,        \* the shared log the methods append to
    callback,   \* the wrapper createSuperSafeCallback returned last
    last,       \* the top-level call being run or last run, and its outcome
    raw,        \* the raw property map handed to describe, in enumeration order
    defaults,   \* the defaultDescriptor argument of describe
    descs,      \* the descriptors describe returned, in insertion order
    phase,      \* "idle", or "input" before and "done" after describe ran,
                \* "cloned" after clone(raw, defaults) ran
    installed,  \* the own properties of the object clone(raw, defaults) made
    heap,       \* the objects copy and mix work on: heap[i] is the object i
    copied      \* the calls of copy and mix made so far, oldest first

cvars == <<alive, proto, sealed, cursor, props, extra, stack, log, callback, last>>
dvars == <<raw, defaults, descs, phase, installed>>
kvars == <<heap, copied>>
vars == <<cvars, dvars, kvars>>

\* ------------------------------------------------------- the object store
\* A frame of the call stack: a running method ("method"), a wrapped function
\* ("fn"), an _applySuper waiting for the method it applied ("super", with its
\* savedSuper), a superSafeCallback waiting for its function ("callback", with
\* its callbackSuper k, the cursor it found in saved, and whether it took the
\* branch that swaps the cursor).
Frame(kind, s, h, n, ops, sv, k, swap) ==
    [kind |-> kind, self |-> s, owner |-> h, name |-> n, ops |-> ops, saved |-> sv,
     k |-> k, swap |-> swap]
MethodFrame(s, h, n) == Frame("method", s, h, n, props[h][n].ops, Undef, Undef, FALSE)
SuperFrame(s, n, sv) == Frame("super", s, 0, n, << >>, sv, Undef, FALSE)
FnFrame(s, n, ops) == Frame("fn", s, 0, n, ops, Undef, Undef, FALSE)
CallbackFrame(s, sv, k, swap) == Frame("callback", s, 0, "", << >>, sv, k, swap)

Idle == stack = << >>
Top == stack[Len(stack)]
Pop(st) == SubSeq(st, 1, Len(st) - 1)
Append2(st, a, b) == Append(Append(st, a), b)
Logged(l, h) == IF Len(l) < MaxLog THEN Append(l, h) ELSE l

\* Object.getPrototypeOf of an object value
ProtoOf(x) == proto[x.v]

\* the nearest object of o's chain that has the own property `name`, -1 if none
RECURSIVE MethodHolder(_, _)
MethodHolder(o, name) ==
    IF props[o][name].kind # "none" THEN o
    ELSE IF proto[o] = NullV THEN -1
    ELSE MethodHolder(proto[o].v, name)

\* the nearest object of o's chain that has an own __super__ in the cursor map c
RECURSIVE CursorHolder(_, _)
CursorHolder(c, o) ==
    IF c[o] # NoProp THEN o
    ELSE IF proto[o] = NullV THEN -1
    ELSE CursorHolder(c, proto[o].v)

\* '__super__' in o
HasSuper(c, o) == CursorHolder(c, o) # -1
\* o.__super__
ReadSuper(c, o) == IF HasSuper(c, o) THEN c[CursorHolder(c, o)] ELSE Undef
\* o.__super__ = x, in sloppy mode: an own property is written, a missing or
\* inherited one is created on o unless o is not extensible, and then the
\* assignment is ignored
AssignSuper(c, o, x) ==
    IF c[o] # NoProp \/ ~sealed[o] THEN [c EXCEPT ![o] = x] ELSE c

\* the top-level call: what was called on which object, whether the object had
\* no __super__ in sight when it was called, and how the call ended
NoCall ==
    [op |-> "none", obj |-> 0, first |-> FALSE, status |-> "returned", error |-> "",
     value |-> Undef]
Call(op, o, st, v) ==
    [op |-> op, obj |-> o, first |-> ~HasSuper(cursor, o), status |-> st, error |-> "",
     value |-> v]
NoCallback == [self |-> 0, k |-> Undef, had |-> FALSE, ops |-> << >>, made |-> FALSE]

CoreInit ==
    /\ alive = {ObjectPrototype, RootObject}
    /\ proto = [o \in ObjIds |-> IF o = RootObject THEN Obj(ObjectPrototype) ELSE NullV]
    /\ sealed = [o \in ObjIds |-> FALSE]
    /\ cursor = [o \in ObjIds |-> NoProp]
    /\ props = [o \in ObjIds |->
                  [m |-> NoDef,
                   constructor |-> IF o = RootObject THEN CloneObject
                                   ELSE IF o = ObjectPrototype THEN HostObject
                                   ELSE NoDef]]
    /\ extra = [o \in ObjIds |-> FALSE]
    /\ stack = << >>
    /\ log = << >>
    /\ callback = NoCallback
    /\ last = NoCall

Init ==
    /\ CoreInit
    /\ raw = << >>
    /\ defaults = [given |-> FALSE, enumerable |-> NoProp]
    /\ descs = << >>
    /\ phase = "idle"
    /\ installed = << >>
    /\ heap = << >>
    /\ copied = << >>

Fresh == CHOOSE n \in ObjIds : n \notin alive /\ \A k \in ObjIds \ alive : n <= k
Children(p) == {o \in alive : proto[o] = Obj(p)}
\* clone and create are called on the newest object: the objects form one
\* delegation chain $object <- o2 <- o3 ...  A call on an object reads and
\* writes that object and reads its ancestors only, so objects beside the
\* chain of a receiver take no part in what the receiver does.
Receivers == {p \in alive \ {ObjectPrototype} : Children(p) = {}}
UserObjects == alive \ {ObjectPrototype, RootObject}

\* clone(): Object.create(this, describe(properties))
Clone(parent, pm) ==
    /\ Idle
    /\ alive # ObjIds
    /\ parent \in Receivers
    /\ alive' = alive \cup {Fresh}
    /\ proto' = [proto EXCEPT ![Fresh] = Obj(parent)]
    /\ props' = [props EXCEPT ![Fresh] = pm]
    /\ last' = Call("clone", Fresh, "returned", Obj(Fresh))
    /\ UNCHANGED <<sealed, cursor, extra, stack, log, callback, dvars, kvars>>

AlwaysSeals(parent) == TRUE
\* the constructor CloneObject, called without properties: seals `this` when
\* this.constructor is CloneObject itself
DefaultSeals(parent) == props[MethodHolder(parent, "constructor")]["constructor"] = CloneObject

\* what `obj.constructor.apply(obj, arguments)` returns
CtorResult(parent) == props[MethodHolder(parent, "constructor")]["constructor"].ret

CreateResultIfDefined(returned, obj) == IF returned # Undef THEN returned ELSE Obj(obj)
\* `returned || obj`
CreateResult(returned, obj) == IF Truthy(returned) THEN returned ELSE Obj(obj)

\* create(): var obj = this.clone(); return obj.constructor.apply(obj, arguments) || obj
Create(parent) ==
    /\ Idle
    /\ alive # ObjIds
    /\ parent \in Receivers
    /\ alive' = alive \cup {Fresh}
    /\ proto' = [proto EXCEPT ![Fresh] = Obj(parent)]
    /\ sealed' = [sealed EXCEPT ![Fresh] = DefaultSeals(parent)]
    /\ last' = Call("create", Fresh, "returned", CreateResult(CtorResult(parent), Fresh))
    /\ UNCHANGED <<cursor, props, extra, stack, log, callback, dvars, kvars>>

\* Object.defineProperty(o, 'p', ...) and o.p = ... for a name o does not own:
\* on an object that is not extensible the first throws, the second is ignored
CanAdd(o) == ~sealed[o]
AddProperty(o, how) ==
    /\ Idle
    /\ o \in UserObjects
    /\ ~extra[o]
    /\ extra' = [extra EXCEPT ![o] = CanAdd(o)]
    /\ last' = [Call(how, o, IF how = "define" /\ ~CanAdd(o) THEN "threw" ELSE "returned",
                     Undef) EXCEPT !.error = IF CanAdd(o) THEN "" ELSE "NotExtensible"]
    /\ UNCHANGED <<alive, proto, sealed, cursor, props, stack, log, callback, dvars, kvars>>

\* ------------------------------------------------- the dispatch controller
\* a top-level call o.m(): the method is looked up along o's chain
Invoke(o, name) ==
    /\ Idle
    /\ o \in UserObjects
    /\ IF MethodHolder(o, name) = -1
         THEN /\ last' = [Call("invoke", o, "threw", Undef) EXCEPT !.error = "NotAFunction"]
              /\ log' = << >>
              /\ UNCHANGED stack
         ELSE /\ last' = Call("invoke", o, "running", Undef)
              /\ log' = <<MethodHolder(o, name)>>
              /\ stack' = <<MethodFrame(o, MethodHolder(o, name), name)>>
    /\ UNCHANGED <<alive, proto, sealed, cursor, props, extra, callback, dvars, kvars>>

\* _applySuper, lines 218-229: the cursor map after the lazy definition of
\* __super__ (Object.defineProperty throws on an object that is not extensible)
InitFails(s) == ~HasSuper(cursor, s) /\ sealed[s]
GrandparentIsParent(s) == proto[s]
Grandparent(s) == IF IsObj(proto[s]) THEN ProtoOf(proto[s]) ELSE Undef
AfterInit(s) ==
    IF HasSuper(cursor, s) THEN cursor ELSE [cursor EXCEPT ![s] = Grandparent(s)]
\* line 232: var savedSuper = this.__super__
SavedSuper(s) == ReadSuper(AfterInit(s), s)
\* line 234: this.__super__ = Object.getPrototypeOf(savedSuper), which throws
\* when savedSuper is not an object
AdvanceFails(s) == ~IsObj(SavedSuper(s))
AfterAdvance(s) == AssignSuper(AfterInit(s), s, ProtoOf(SavedSuper(s)))
\* line 236: savedSuper[methodName], undefined when no level defines it
Target(s, name) == MethodHolder(SavedSuper(s).v, name)

Swallowed(c, e) ==
    /\ cursor' = c
    /\ stack' = [stack EXCEPT ![Len(stack)].ops = Tail(@)]
    /\ UNCHANGED <<log, last>>
\* an error leaves every frame at once: no frame of the library catches it
Throw(c, e) ==
    /\ cursor' = c
    /\ stack' = << >>
    /\ last' = [last EXCEPT !.status = "threw", !.error = e]
    /\ UNCHANGED log

\* this._applySuper(name) up to the call of line 236
SuperCall ==
    /\ ~Idle
    /\ Top.kind \in {"method", "fn"}
    /\ Top.ops # << >>
    /\ Head(Top.ops) = "super"
    /\ LET s == Top.self
           n == Top.name
       IN  IF InitFails(s) THEN Throw(cursor, "NotExtensible")
           ELSE IF AdvanceFails(s) THEN Throw(AfterInit(s), "NotAnObject")
           ELSE IF Target(s, n) = -1 THEN Throw(AfterAdvance(s), "NotAFunction")
           ELSE IF Len(stack) + 2 > MaxStack THEN Throw(AfterAdvance(s), "StackOverflow")
           ELSE /\ cursor' = AfterAdvance(s)
                /\ stack' = Append2(stack, SuperFrame(s, n, SavedSuper(s)),
                                     MethodFrame(s, Target(s, n), n))
                /\ log' = Logged(log, Target(s, n))
                /\ UNCHANGED last
    /\ UNCHANGED <<alive, proto, sealed, props, extra, callback, dvars, kvars>>

\* a method body or a wrapped function reaches its end
MethodReturn ==
    /\ ~Idle
    /\ Top.kind \in {"method", "fn"}
    /\ Top.ops = << >>
    /\ stack' = Pop(stack)
    /\ last' = IF Len(stack) = 1 THEN [last EXCEPT !.status = "returned"] ELSE last
    /\ UNCHANGED <<alive, proto, sealed, cursor, props, extra, log, callback, dvars, kvars>>

\* _applySuper, lines 238-240: restore the cursor and return to the caller
NotRestored(s, sv) == cursor
Restored(s, sv) == AssignSuper(cursor, s, sv)
SuperReturn ==
    /\ ~Idle
    /\ Top.kind = "super"
    /\ cursor' = Restored(Top.self, Top.saved)
    /\ LET st == Pop(stack)
       IN  stack' = [st EXCEPT ![Len(st)].ops = Tail(@)]
    /\ UNCHANGED <<alive, proto, sealed, props, extra, log, callback, last, dvars, kvars>>

\* createSuperSafeCallback(fn), called by top-level code on o or by a method
\* running on o: the wrapper keeps o and o.__super__ as it is now (`had`
\* records whether o had a __super__ in sight then)
CapturedSuper(o) == ReadSuper(cursor, o)
WrapCallback(o, ops) ==
    /\ o \in UserObjects
    /\ IF Idle THEN TRUE
       ELSE Top.kind = "method" /\ Top.self = o /\ stack[1].kind # "callback"
    /\ callback' = [self |-> o, k |-> CapturedSuper(o), had |-> HasSuper(cursor, o),
                    ops |-> ops, made |-> TRUE]
    /\ UNCHANGED <<alive, proto, sealed, cursor, props, extra, stack, log, last, dvars, kvars>>

\* superSafeCallback(), lines 291-299, called later by top-level code: the
\* cursor is swapped for the captured one unless it is the captured one
Swaps(cb) == ReadSuper(cursor, cb.self) # cb.k
DuringCallback(cb) == IF Swaps(cb) THEN AssignSuper(cursor, cb.self, cb.k) ELSE cursor
InvokeCallback ==
    /\ Idle
    /\ callback.made
    /\ cursor' = DuringCallback(callback)
    /\ stack' = <<CallbackFrame(callback.self, ReadSuper(cursor, callback.self),
                                callback.k, Swaps(callback)),
                  FnFrame(callback.self, "m", callback.ops)>>
    /\ log' = << >>
    /\ last' = Call("callback", callback.self, "running", Undef)
    /\ UNCHANGED <<alive, proto, sealed, props, extra, callback, dvars, kvars>>

\* superSafeCallback(), lines 300-302
AfterCallback(f) == IF f.swap THEN AssignSuper(cursor, f.self, f.saved) ELSE cursor
CallbackReturn ==
    /\ ~Idle
    /\ Top.kind = "callback"
    /\ cursor' = AfterCallback(Top)
    /\ stack' = Pop(stack)
    /\ last' = [last EXCEPT !.status = "returned"]
    /\ UNCHANGED <<alive, proto, sealed, props, extra, log, callback, dvars, kvars>>

Next ==
    \/ \E parent \in ObjIds, pm \in MethodMaps : Clone(parent, pm)
    \/ \E parent \in ObjIds : Create(parent)
    \/ \E o \in ObjIds : Invoke(o, "m")
    \/ SuperCall
    \/ MethodReturn
    \/ SuperReturn

Spec == Init /\ [][Next]_vars

FewObjects == Cardinality(UserObjects) < MaxCallbackObj
CallbackNext ==
    \/ \E parent \in ObjIds, pm \in MethodMaps : FewObjects /\ Clone(parent, pm)
    \/ \E parent \in ObjIds : FewObjects /\ Create(parent)
    \/ \E o \in ObjIds : Invoke(o, "m")
    \/ SuperCall
    \/ MethodReturn
    \/ SuperReturn
    \/ \E o \in ObjIds, ops \in FnBodies : WrapCallback(o, ops)
    \/ InvokeCallback
    \/ CallbackReturn

CallbackSpec == Init /\ [][CallbackNext]_vars

FewCreated == Cardinality(UserObjects) < MaxCreateObj
CreateNext ==
    \/ \E parent \in ObjIds, pm \in CtorMaps : FewCreated /\ Clone(parent, pm)
    \/ \E parent \in ObjIds : FewCreated /\ Create(parent)
    \/ \E o \in ObjIds, how \in {"define", "assign"} : AddProperty(o, how)

CreateSpec == Init /\ [][CreateNext]_vars

\* -------------------------------------------------- the descriptor compiler
\* A property name is a sequence of atoms: "(", ")", " ", a word, "_" or a
\* letter.  The values of a raw map are JS values; Str(1) is 'target'.
FlagWords == {"const", "final", "get", "hidden", "set", "writable"}
Tokens == FlagWords \cup {"foo"}
Names == {<<"x">>, <<"_", "x">>}
Values == {Num(1), Str(1), Fn(1), Fn(2)}
Gaps == {<<" ">>, <<" ", " ">>, << >>}

MaxFlags == 3       \* tokens of the annotation of a one-entry map
MaxPairFlags == 1   \* tokens of each annotation of a two-entry map

RECURSIVE Join(_, _)
Join(ts, gap) == IF Len(ts) = 1 THEN ts ELSE <<Head(ts)>> \o gap \o Join(Tail(ts), gap)
Annotated(ts, gap, n) == <<"(">> \o Join(ts, gap) \o <<")", " ">> \o n

Range(f) == {f[i] : i \in DOMAIN f}
TokenSeqs(k, tokens) ==
    {ts \in UNION {[1..n -> tokens] : n \in 1..k} :
        \A i, j \in DOMAIN ts : i # j => ts[i] # ts[j]}
Entries(k, gaps, tokens) ==
    {[key |-> n, value |-> v] : n \in Names, v \in Values}
    \cup {[key |-> Annotated(ts, g, n), value |-> v] :
            ts \in TokenSeqs(k, tokens), g \in gaps, n \in Names, v \in Values}
PairEntries == Entries(MaxPairFlags, {<<" ">>}, FlagWords)
RawMaps ==
    {<<e>> : e \in Entries(MaxFlags, Gaps, Tokens)}
    \cup {m \in {<<e1, e2>> : e1 \in PairEntries, e2 \in PairEntries} :
            m[1].key # m[2].key}

\* the defaultDescriptor arguments: none, {enumerable: true}, {enumerable: false}
DefaultArgs ==
    {[given |-> FALSE, enumerable |-> NoProp],
     [given |-> TRUE, enumerable |-> Bool(TRUE)],
     [given |-> TRUE, enumerable |-> Bool(FALSE)]}

\* a descriptor object: its own fields, NoProp where it has none
EmptyDesc ==
    [enumerable |-> NoProp, writable |-> NoProp, configurable |-> NoProp,
     value |-> NoProp, get |-> NoProp, set |-> NoProp]
\* line 136: the prototype of every descriptor
DefaultDescriptor(arg) ==
    IF arg.given THEN [EmptyDesc EXCEPT !.enumerable = arg.enumerable]
    ELSE [EmptyDesc EXCEPT !.configurable = Bool(TRUE), !.enumerable = Bool(TRUE),
                           !.writable = Bool(TRUE)]
\* line 142
HidingAllowed(arg) == ~(arg.given /\ Truthy(arg.enumerable))
\* descriptor.f: the own field, else the prototype's, else undefined
Field(d, arg, f) ==
    IF d[f] # NoProp THEN d[f]
    ELSE IF DefaultDescriptor(arg)[f] # NoProp THEN DefaultDescriptor(arg)[f]
    ELSE Undef
\* `f in descriptor`, as Object.defineProperties asks
HasField(d, arg, f) == d[f] # NoProp \/ DefaultDescriptor(arg)[f] # NoProp

TypeOf(x) ==
    CASE x.t \in {"function", "getter", "setter"} -> "function"
      [] x.t \in {"null", "array"} -> "object"
      [] x.t = "nan" -> "number"
      [] OTHER -> x.t
\* the accessors of lines 172-178, forwarding to the property named by the string
Getter(str) == [t |-> "getter", v |-> str.v]
Setter(str) == [t |-> "setter", v |-> str.v]

\* the regular expression of line 150 --------------------------------------
Min(S) == CHOOSE x \in S : \A y \in S : x <= y
CloseAt(key) ==
    IF \E j \in DOMAIN key : key[j] = ")" THEN Min({j \in DOMAIN key : key[j] = ")"}) ELSE 0
\* matches[1]: words of the six flags, each followed by any number of spaces
Group(key) == SubSeq(key, 2, CloseAt(key) - 1)
GroupOk(g) == g # << >> /\ g[1] \in FlagWords /\ \A i \in DOMAIN g : g[i] \in FlagWords \cup {" "}
RECURSIVE SpacesFrom(_, _)
SpacesFrom(key, i) == IF i <= Len(key) /\ key[i] = " " THEN 1 + SpacesFrom(key, i + 1) ELSE 0
AfterSpaces(key) ==
    SubSeq(key, CloseAt(key) + 1 + SpacesFrom(key, CloseAt(key) + 1), Len(key))
Matches(key) ==
    /\ key[1] = "("
    /\ CloseAt(key) > 0
    /\ GroupOk(Group(key))
    /\ SpacesFrom(key, CloseAt(key) + 1) >= 1
    /\ AfterSpaces(key) # << >> \/ SpacesFrom(key, CloseAt(key) + 1) >= 2
\* matches[4]: ` +` gives back one space when nothing else is left for `.+`
BareName(key) == IF AfterSpaces(key) # << >> THEN AfterSpaces(key) ELSE <<" ">>

\* matches[1].split(' '): the runs of words between single spaces
RECURSIVE SplitFrom(_, _, _)
SplitFrom(g, cur, acc) ==
    IF g = << >> THEN Append(acc, cur)
    ELSE IF Head(g) = " " THEN SplitFrom(Tail(g), << >>, Append(acc, cur))
    ELSE SplitFrom(Tail(g), Append(cur, Head(g)), acc)
Split(g) == SplitFrom(g, << >>, << >>)

\* .sort(): the order of strings; no flag word starts another and their first
\* letters differ, so runs of words compare word by word
WordRank(w) ==
    CASE w = "const" -> 1 [] w = "final" -> 2 [] w = "get" -> 3
      [] w = "hidden" -> 4 [] w = "set" -> 5 [] w = "writable" -> 6 [] OTHER -> 7
RECURSIVE PieceLess(_, _)
PieceLess(a, b) ==
    IF a = << >> THEN b # << >>
    ELSE IF b = << >> THEN FALSE
    ELSE IF Head(a) # Head(b) THEN WordRank(Head(a)) < WordRank(Head(b))
    ELSE PieceLess(Tail(a), Tail(b))
RECURSIVE Insert(_, _)
Insert(p, sorted) ==
    IF sorted = << >> THEN <<p>>
    ELSE IF PieceLess(p, Head(sorted)) THEN <<p>> \o sorted
    ELSE <<Head(sorted)>> \o Insert(p, Tail(sorted))
RECURSIVE InsertAll(_, _)
InsertAll(ps, sorted) ==
    IF ps = << >> THEN sorted ELSE InsertAll(Tail(ps), Insert(Head(ps), sorted))
Unsorted(ps) == ps
Sort(ps) == InsertAll(ps, << >>)

\* the switch of lines 157-164
ApplyPrefix(d, piece, value) ==
    CASE piece = <<"const">> -> [d EXCEPT !.writable = Bool(FALSE)]
      [] piece = <<"final">> -> [d EXCEPT !.configurable = Bool(FALSE), !.writable = Bool(FALSE)]
      [] piece = <<"get">> -> [d EXCEPT !.get = value]
      [] piece = <<"hidden">> -> [d EXCEPT !.enumerable = Bool(FALSE)]
      [] piece = <<"set">> -> [d EXCEPT !.set = value]
      [] piece = <<"writable">> -> [d EXCEPT !.writable = Bool(TRUE)]
      [] OTHER -> d
RECURSIVE ApplyPrefixes(_, _, _)
ApplyPrefixes(d, pieces, value) ==
    IF pieces = << >> THEN d
    ELSE ApplyPrefixes(ApplyPrefix(d, Head(pieces), value), Tail(pieces), value)

\* descriptors[name], 0 when there is none
IndexOf(out, name) ==
    IF \E i \in DOMAIN out : out[i].name = name
    THEN CHOOSE i \in DOMAIN out : out[i].name = name ELSE 0
\* descriptors[name] = descriptor
Put(out, name, d) ==
    IF IndexOf(out, name) = 0 THEN Append(out, [name |-> name, d |-> d])
    ELSE [out EXCEPT ![IndexOf(out, name)].d = d]

\* line 168
IsAccessor(d, arg) == Truthy(Field(d, arg, "get")) \/ Truthy(Field(d, arg, "set"))
\* lines 169-180
WithGenerated(d, arg, value) ==
    IF value.t # "string" THEN d
    ELSE IF Field(d, arg, "get").t = "string" THEN [d EXCEPT !.get = Getter(value)]
    ELSE [d EXCEPT !.set = Setter(value)]
HidesUnderscoreOnly(arg, value, name) == name[1] = "_"
\* line 188
Hides(arg, value, name) == (HidingAllowed(arg) /\ TypeOf(value) = "function") \/ name[1] = "_"

\* one turn of the loop of lines 144-196
DescribeEntry(out, e, arg) ==
    LET matched == e.key[1] = "(" /\ Matches(e.key)
        name == IF matched THEN BareName(e.key) ELSE e.key
        d0 == IF matched /\ IndexOf(out, name) # 0 THEN out[IndexOf(out, name)].d ELSE EmptyDesc
        d1 == IF matched THEN ApplyPrefixes(d0, Sort(Split(Group(e.key))), e.value) ELSE d0
        d2 == IF IsAccessor(d1, arg)
              THEN [WithGenerated(d1, arg, e.value) EXCEPT !.value = Undef]
              ELSE [d1 EXCEPT !.value = e.value]
        value == IF IsAccessor(d1, arg) /\ Truthy(Field(d2, arg, "get")) THEN Undef ELSE e.value
        d3 == IF Hides(arg, value, name) THEN [d2 EXCEPT !.enumerable = Bool(FALSE)] ELSE d2
    IN  Put(out, name, d3)

RECURSIVE DescribeFrom(_, _, _)
DescribeFrom(entries, out, arg) ==
    IF entries = << >> THEN out
    ELSE DescribeFrom(Tail(entries), DescribeEntry(out, Head(entries), arg), arg)

DescribeInit ==
    /\ CoreInit
    /\ raw \in RawMaps
    /\ defaults \in DefaultArgs
    /\ descs = << >>
    /\ phase = "input"
    /\ installed = << >>
    /\ heap = << >>
    /\ copied = << >>

\* $object.describe(raw, defaults)
Describe ==
    /\ phase = "input"
    /\ descs' = DescribeFrom(raw, << >>, defaults)
    /\ phase' = "done"
    /\ UNCHANGED <<cvars, raw, defaults, installed, kvars>>

\* ToPropertyDescriptor, as Object.create applies it to a record: the fields
\* are looked up with HasProperty, so those of the default descriptor count;
\* a getter or setter must be callable or undefined, and a record with a
\* getter or setter must have neither value nor writable
Callable(x) == x.t \in {"function", "getter", "setter"}
ValidDescriptor(d, arg) ==
    /\ HasField(d, arg, "get") => Callable(Field(d, arg, "get")) \/ Field(d, arg, "get") = Undef
    /\ HasField(d, arg, "set") => Callable(Field(d, arg, "set")) \/ Field(d, arg, "set") = Undef
    /\ ~(/\ HasField(d, arg, "get") \/ HasField(d, arg, "set")
         /\ HasField(d, arg, "value") \/ HasField(d, arg, "writable"))
\* the own property Object.create defines from a record
Installed(r, arg) ==
    [name |-> r.name,
     value |-> Field(r.d, arg, "value"),
     get |-> Field(r.d, arg, "get"),
     set |-> Field(r.d, arg, "set"),
     enumerable |-> Truthy(Field(r.d, arg, "enumerable")),
     writable |-> Truthy(Field(r.d, arg, "writable")),
     configurable |-> Truthy(Field(r.d, arg, "configurable"))]

\* parent.clone(raw, defaults): Object.create(parent, describe(raw, defaults)),
\* which converts every record before it defines any property and throws a
\* TypeError on the first record that is no valid descriptor
CloneProperties(parent) ==
    /\ phase = "input"
    /\ parent \in Receivers
    /\ LET ds == DescribeFrom(raw, << >>, defaults)
           ok == \A i \in DOMAIN ds : ValidDescriptor(ds[i].d, defaults)
       IN  /\ descs' = ds
           /\ IF ok
                THEN /\ alive' = alive \cup {Fresh}
                     /\ proto' = [proto EXCEPT ![Fresh] = Obj(parent)]
                     /\ installed' = [i \in DOMAIN ds |-> Installed(ds[i], defaults)]
                     /\ last' = Call("clone", Fresh, "returned", Obj(Fresh))
                ELSE /\ last' = [Call("clone", parent, "threw", Undef)
                                   EXCEPT !.error = "InvalidDescriptor"]
                     /\ UNCHANGED <<alive, proto, installed>>
    /\ phase' = "cloned"
    /\ UNCHANGED <<sealed, cursor, props, extra, stack, log, callback, raw, defaults, kvars>>

DescribeNext ==
    \/ Describe
    \/ \E parent \in ObjIds : CloneProperties(parent)

DescribeSpec == DescribeInit /\ [][DescribeNext]_vars

\* ------------------------------------------------------------- the claims
\* the top-level call of m on r has finished, and r had no __super__ in sight
\* when it was made (r's first dispatch)
FinishedFirstCall(r) ==
    last.op = "invoke" /\ last.obj = r /\ last.first /\ last.status # "running"

LevelC(r) == proto[r].v
LevelB(r) == proto[LevelC(r)].v
LevelA(r) == proto[LevelB(r)].v

\* r is a clone (made by clone(), so extensible), without an m of its own, of C in a chain A <- B <- C whose
\* levels define m with the bodies ba, bb, bc, no level above A defining m
ChainABC(r, ba, bb, bc) ==
    /\ {r, LevelC(r), LevelB(r), LevelA(r)} \subseteq UserObjects
    /\ props[r].m = NoDef /\ ~sealed[r]
    /\ props[LevelC(r)].m = Method(bc)
    /\ props[LevelB(r)].m = Method(bb)
    /\ props[LevelA(r)].m = Method(ba)
    /\ MethodHolder(proto[LevelA(r)].v, "m") = -1

\* C1: with A <- B <- C each defining an m that logs its level and dispatches
\* m, the call of m on a fresh clone of C (its first dispatch) ends with the
\* log [C, B, A]: each level's m ran exactly once, most derived first.
C1_LogIsCBA ==
    \A r \in UserObjects :
        FinishedFirstCall(r) /\ ChainABC(r, Super1, Super1, Super1)
            => log = <<LevelC(r), LevelB(r), LevelA(r)>>

C1_Witness ==
    \E r \in UserObjects :
        /\ FinishedFirstCall(r) /\ ChainABC(r, Super1, Super1, Super1)
        /\ log = <<LevelC(r), LevelB(r), LevelA(r)>>

\* the frame i of the stack is gone after the step
Leaves(i) == Len(stack') < i

\* C2: whenever a dispatch (_applySuper) is left, by return or by an error,
\* the object's cursor is again the value the dispatch saved before it
\* advanced the cursor.
C2_RestoredOnEveryExit ==
    [][\A i \in 1..Len(stack) :
          stack[i].kind = "super" /\ Leaves(i)
              => ReadSuper(cursor', stack[i].self) = stack[i].saved]_vars

InDispatch(o) == \E i \in 1..Len(stack) : stack[i].kind = "super" /\ stack[i].self = o

\* C3: for every object with a cursor in sight and no dispatch in progress on
\* it, the cursor is the parent of the object's parent.
C3_CursorIsGrandparent ==
    \A o \in UserObjects :
        ~InDispatch(o) /\ HasSuper(cursor, o) => ReadSuper(cursor, o) = Grandparent(o)

\* a dispatch returns normally in this step
SuperReturns == ~Idle /\ Top.kind = "super" /\ Len(stack') = Len(stack) - 1

\* r is a clone, without an m of its own, of B in a chain A <- B of which B
\* dispatches twice and A returns, no level above A defining m
ChainAB2(r) ==
    /\ {r, LevelC(r), LevelB(r)} \subseteq UserObjects
    /\ props[r].m = NoDef /\ ~sealed[r]
    /\ props[LevelC(r)].m = Method(Super2)
    /\ props[LevelB(r)].m = Method(Leaf)
    /\ MethodHolder(proto[LevelB(r)].v, "m") = -1

C4_BothReachA ==
    \A r \in UserObjects :
        /\ FinishedFirstCall(r) /\ ChainABC(r, Leaf, Super2, Super1)
               => /\ log = <<LevelC(r), LevelB(r), LevelA(r), LevelA(r)>>
                  /\ last.status = "returned"
        /\ FinishedFirstCall(r) /\ ChainAB2(r)
               => /\ log = <<LevelC(r), LevelB(r), LevelB(r)>>
                  /\ last.status = "returned"

\* C4: a dispatch that returns normally leaves the cursor at the value it
\* saved, so the m of level B (chain A <- B <- C, or A <- B), dispatching twice
\* in sequence, runs A's m both times and nothing else.
C4_ReentrantDispatch ==
    /\ []C4_BothReachA
    /\ [][SuperReturns => ReadSuper(cursor', Top.self) = Top.saved]_vars

C4_Witness ==
    \E r \in UserObjects :
        /\ FinishedFirstCall(r) /\ ChainABC(r, Leaf, Super2, Super1)
        /\ log = <<LevelC(r), LevelB(r), LevelA(r), LevelA(r)>>

\* the wrapper is called in this step, for a callback wrapped while its object
\* had a cursor and called while it has one
CallbackEnters ==
    /\ Idle /\ stack' # << >> /\ stack'[1].kind = "callback"
    /\ callback.had /\ ~last'.first
CallbackLeaves ==
    /\ ~Idle /\ stack[1].kind = "callback" /\ stack' = << >>
    /\ callback.had /\ ~last.first

\* C5: a callback wrapped while o's cursor was k and called while it is v
\* runs its function with o's cursor at k and leaves o's cursor at v.
C5_CallbackSwapsCursor ==
    [][/\ CallbackEnters => ReadSuper(cursor', callback.self) = callback.k
       /\ CallbackLeaves => ReadSuper(cursor', stack[1].self) = stack[1].saved]_vars

\* the running method is about to dispatch
AtDispatch == ~Idle /\ Top.kind \in {"method", "fn"} /\ Top.ops # << >> /\ Head(Top.ops) = "super"
\* no level from the cursor object upward defines the dispatched name
NoLevelDefines == AdvanceFails(Top.self) \/ Target(Top.self, Top.name) = -1

\* C6: a dispatch of a name that no level from the cursor object upward
\* defines ends the whole call with an error: no method is run (the log stays
\* as it is) and nothing is returned to the caller of the dispatch.
C6_AbsentMethodRaises ==
    [][AtDispatch /\ ~InitFails(Top.self) /\ NoLevelDefines
          => stack' = << >> /\ last'.status = "threw" /\ log' = log]_vars

C6_Witness ==
    /\ last.op = "invoke" /\ last.status = "threw" /\ last.error = "NotAFunction"
    /\ Len(log) >= 2

\* the objects of o's chain, o included
RECURSIVE ChainOf(_)
ChainOf(o) == IF proto[o] = NullV THEN {o} ELSE {o} \cup ChainOf(proto[o].v)
\* some object made by the program, on p's chain, defines a constructor
OverridesCtor(p) == \E a \in ChainOf(p) \ {ObjectPrototype, RootObject} : props[a].constructor # NoDef

\* create() makes the object n in this step
Creates(n) == last'.op = "create" /\ n \notin alive /\ n \in alive' /\ last'.obj = n
\* the step is an attempt to add an own property to o
AddsTo(o) == last'.op \in {"define", "assign"} /\ last'.obj = o /\ alive' = alive

\* C7: create() under the default constructor makes a sealed object, which
\* stays sealed and on which every attempt to add an own property fails
\* (defineProperty throws, an assignment is ignored); create() under an
\* overriding constructor makes an object that is not sealed, and on an object
\* that is not sealed the attempt succeeds.
C7_DefaultCreateSeals ==
    [][\A o \in ObjIds :
          /\ Creates(o) => (sealed'[o] <=> ~OverridesCtor(proto'[o].v))
          /\ o \in alive => sealed'[o] = sealed[o]
          /\ o \in alive /\ sealed[o]
                => /\ extra'[o] = extra[o]
                   /\ AddsTo(o) => last'.error = "NotExtensible"
                   /\ AddsTo(o) /\ last'.op = "define" => last'.status = "threw"
          /\ o \in alive /\ ~sealed[o] /\ AddsTo(o)
                => extra'[o] /\ last'.status = "returned" /\ last'.error = ""]_vars

C7_Witness ==
    /\ last.op = "define" /\ last.status = "threw" /\ sealed[last.obj] /\ ~extra[last.obj]
    /\ ~OverridesCtor(proto[last.obj].v)
    /\ \E u \in UserObjects : OverridesCtor(proto[u].v) /\ props[u] = NoProps /\ extra[u]

\* the value the constructor of the object create() made last returned
LastCtorResult == CtorResult(proto[last.obj].v)

\* C8 as claimed: create() returns the constructor's value whenever the
\* constructor returns one, and the new object only when it returns nothing.
C8_ReturnsCtorValue ==
    last.op = "create"
        => last.value = IF LastCtorResult # Undef THEN LastCtorResult ELSE Obj(last.obj)

\* C8 amended: create() returns the constructor's value when that value is
\* truthy, and the freshly cloned object, whose parent is the receiver, when
\* the constructor returns nothing or a falsy value (null, 0, '', false).
C8_ReturnsTruthyCtorValue ==
    [][\A n \in ObjIds :
          Creates(n)
              => /\ proto'[n].v \in Receivers
                 /\ last'.value = IF Truthy(CtorResult(proto'[n].v))
                                   THEN CtorResult(proto'[n].v) ELSE Obj(n)]_vars

C8_Witness ==
    /\ last.op = "create" /\ LastCtorResult = Num(0) /\ last.value = Obj(last.obj)
    /\ \E u \in UserObjects : props[u].constructor = Ctor(Num(1))

\* the descriptor describe returned for the i-th name, read as defineProperties
\* reads it: own fields first, then the default descriptor's
Attr(i, f) == Field(descs[i].d, defaults, f)

\* C9: for a raw map of plain (un-annotated) names and no defaults, describe
\* returns one record per key, under that key and in the same order, holding
\* the raw value, writable and configurable, and enumerable unless the value
\* is a function or the name starts with '_'.
C9_PlainNamesKeepDefaults ==
    phase = "done" /\ ~defaults.given /\ (\A i \in DOMAIN raw : raw[i].key[1] # "(")
        => /\ Len(descs) = Len(raw)
           /\ \A i \in DOMAIN raw :
                /\ descs[i].name = raw[i].key
                /\ descs[i].d.value = raw[i].value
                /\ Attr(i, "writable") = Bool(TRUE)
                /\ Attr(i, "configurable") = Bool(TRUE)
                /\ Attr(i, "enumerable") =
                       Bool(~(TypeOf(raw[i].value) = "function" \/ raw[i].key[1] = "_"))

C9_Witness ==
    /\ phase = "done" /\ ~defaults.given /\ Len(raw) = 2
    /\ raw[1] = [key |-> <<"_", "x">>, value |-> Num(1)]
    /\ raw[2] = [key |-> <<"x">>, value |-> Fn(1)]
    /\ Len(descs) = 2 /\ Attr(1, "enumerable") = Bool(FALSE) /\ Attr(2, "enumerable") = Bool(FALSE)

\* the tokens written between the parentheses of a key, in the order written
Written(key) == SelectSeq(Group(key), LAMBDA a : a # " ")
\* every two tokens of the key are separated by white space
Spaced(key) == \A i \in 1..(Len(Group(key)) - 1) : Group(key)[i] = " " \/ Group(key)[i + 1] = " "
\* the name written after the annotation
WrittenName(key) == SelectSeq(SubSeq(key, CloseAt(key) + 1, Len(key)), LAMBDA a : a # " ")
MutabilityFlags == {"const", "final", "writable", "hidden"}
\* the raw map is the single entry '(flags) name': value, flags from MutabilityFlags
OneFlagged ==
    /\ phase = "done" /\ ~defaults.given /\ Len(raw) = 1
    /\ raw[1].key[1] = "(" /\ Spaced(raw[1].key)
    /\ Range(Written(raw[1].key)) \subseteq MutabilityFlags

\* C10: the record of '(flags) name': value, flags drawn from const, final,
\* writable, hidden, depends on the set of flags only, not on their order:
\* configurable is false iff final is written; writable is true if writable
\* is written, else false if const or final is, else true; enumerable is
\* false if hidden is written (and else unless the value is a function or the
\* name starts with '_'); the value is the raw value.
C10_FlagsOrderIndependent ==
    OneFlagged
        => LET F == Range(Written(raw[1].key))
           IN  /\ Len(descs) = 1
               /\ descs[1].name = WrittenName(raw[1].key)
               /\ descs[1].d.value = raw[1].value
               /\ descs[1].d.get = NoProp /\ descs[1].d.set = NoProp
               /\ Attr(1, "configurable") = Bool("final" \notin F)
               /\ Attr(1, "writable") = Bool("writable" \in F \/ F \cap {"const", "final"} = {})
               /\ "hidden" \in F => Attr(1, "enumerable") = Bool(FALSE)
               /\ Attr(1, "enumerable") =
                      Bool(~("hidden" \in F \/ TypeOf(raw[1].value) = "function"
                             \/ WrittenName(raw[1].key)[1] = "_"))

C10_Witness ==
    /\ OneFlagged
    /\ raw[1] = [key |-> Annotated(<<"writable", "final">>, <<" ">>, <<"x">>), value |-> Num(1)]
    /\ Attr(1, "configurable") = Bool(FALSE) /\ Attr(1, "writable") = Bool(TRUE)
    /\ Attr(1, "enumerable") = Bool(TRUE)

\* the i-th record describe returned has an accessor slot of its own
AccessorForm(i) == descs[i].d.get # NoProp \/ descs[i].d.set # NoProp

\* C11: every record describe returns is in data form or in accessor form: a
\* record with a getter or a setter has no value field, and a record with a
\* value field has neither getter nor setter.
C11_DataOrAccessor ==
    phase = "done" => \A i \in DOMAIN descs : ~(AccessorForm(i) /\ descs[i].d.value # NoProp)

\* every key of the raw map is a plain name
AllPlain == \A i \in DOMAIN raw : raw[i].key[1] # "("
\* the caller's defaults specify enumerable: true
OptsOut == defaults.given /\ defaults.enumerable = Bool(TRUE)
\* the entry is of a kind implicit hiding applies to
ImplicitlyHidden(e) == TypeOf(e.value) = "function" \/ e.key[1] = "_"

\* C12: defaults that specify enumerable: true switch implicit hiding off as a
\* whole: the records of function-valued entries and of entries named '_...'
\* are then enumerable, and without such defaults both kinds are not.
C12_DefaultsSwitchHidingOff ==
    phase = "done" /\ AllPlain
        => \A i \in DOMAIN raw :
              ImplicitlyHidden(raw[i]) => Attr(i, "enumerable") = Bool(OptsOut)

\* the white-space separated tokens written between the parentheses of a key
WrittenTokens(key) == {p \in Range(Split(Group(key))) : p # << >>}
\* the raw map is the single entry '(tokens) name': value and one of the
\* tokens is not a flag word
OneUnknownToken ==
    /\ phase = "done" /\ Len(raw) = 1
    /\ raw[1].key[1] = "(" /\ CloseAt(raw[1].key) > 0
    /\ \E p \in WrittenTokens(raw[1].key) : ~(Len(p) = 1 /\ p[1] \in FlagWords)

\* C13: a key '(tokens) name' with a token that is none of get, set, const,
\* final, hidden, writable is taken literally: describe returns one record,
\* under the whole key, holding the raw value with the default attributes,
\* and none under the bare name.
C13_UnknownTokenIsLiteral ==
    OneUnknownToken
        => /\ Len(descs) = 1
           /\ descs[1].name = raw[1].key
           /\ descs[1].d.value = raw[1].value
           /\ descs[1].d.get = NoProp /\ descs[1].d.set = NoProp
           /\ descs[1].d.writable = NoProp /\ descs[1].d.configurable = NoProp

\* the entry of the raw map written '(flag) name'
EntryOf(flag, n) == CHOOSE e \in Range(raw) : e.key = Annotated(<<flag>>, <<" ">>, n)
\* the raw map is '(get) n': g with '(set) n': s, in either order, g and s functions
GetSetPair(n) ==
    /\ phase = "done" /\ Len(raw) = 2
    /\ {raw[1].key, raw[2].key} = {Annotated(<<"get">>, <<" ">>, n), Annotated(<<"set">>, <<" ">>, n)}
    /\ TypeOf(raw[1].value) = "function" /\ TypeOf(raw[2].value) = "function"

\* C14: '(get) n': g and '(set) n': s merge into one record for n with getter
\* g and setter s, and the record, attributes included, is the one describe
\* returns for the same two entries enumerated in the other order.
C14_GetSetMergeAnyOrder ==
    \A n \in Names :
        GetSetPair(n)
            => /\ Len(descs) = 1
               /\ descs[1].name = n
               /\ descs[1].d.get = EntryOf("get", n).value
               /\ descs[1].d.set = EntryOf("set", n).value
               /\ LET other == DescribeFrom(<<raw[2], raw[1]>>, << >>, defaults)
                  IN  /\ Len(other) = 1 /\ other[1].name = n
                      /\ \A f \in {"get", "set", "value", "enumerable", "writable", "configurable"} :
                            Field(other[1].d, defaults, f) = Attr(1, f)

\* the raw map is the single entry '(flags) name': t, t a string, the flags
\* (flag words separated by white space) holding get or set
OneAccessorString ==
    /\ phase = "done" /\ Len(raw) = 1
    /\ raw[1].key[1] = "(" /\ Spaced(raw[1].key)
    /\ Range(Written(raw[1].key)) \subseteq FlagWords
    /\ Range(Written(raw[1].key)) \cap {"get", "set"} # {}
    /\ raw[1].value.t = "string"

\* C15: when the raw value under get and/or set is a string t, every flagged
\* accessor slot holds a generated function, the getter reading and the
\* setter assigning the receiver's property t; no slot keeps the string.
C15_StringGivesAccessors ==
    OneAccessorString
        => LET F == Range(Written(raw[1].key))
           IN  /\ Len(descs) = 1
               /\ "get" \in F => descs[1].d.get = Getter(raw[1].value)
               /\ "set" \in F => descs[1].d.set = Setter(raw[1].value)
               /\ descs[1].d.get.t # "string" /\ descs[1].d.set.t # "string"

\* the names of the records describe returned with enumerable = true
EnumerableNames == {descs[i].name : i \in {j \in DOMAIN descs : Truthy(Attr(j, "enumerable"))}}
\* the own enumerable property names of the object clone(raw, defaults) made
OwnEnumerableNames == {installed[i].name : i \in {j \in DOMAIN installed : installed[j].enumerable}}

\* C16: for every raw map, clone(parent, raw) completes and returns an object
\* whose parent is `parent` and whose own enumerable property names are the
\* bare names of the entries whose record has enumerable = true.
C16_CloneInstallsEnumerable ==
    phase = "cloned"
        => /\ last.op = "clone" /\ last.status = "returned"
           /\ proto[last.obj] = Obj(RootObject)
           /\ OwnEnumerableNames = EnumerableNames

\* ------------------------------------------------------------ copy and mix
\* The objects copy and mix read and make live in `heap`: heap[i] is the
\* object i, with its [[Prototype]] and its own properties in the order of
\* Object.getOwnPropertyNames.  A property is a name, a value and whether it
\* is enumerable.
MaxArgs == 3        \* arguments of one call of copy
MaxCopies == 2      \* calls of copy or mix made on one heap

HeapObjectPrototype == 1
HeapRoot == 2
Nested == 3         \* the object the property n holds
Collection == 4     \* $collection = $object.clone(...)
Users == 5          \* $users = $collection.clone(...)
Parent == 6         \* $parent, an object given as rootPrototype

DeepCopyStr == Str(2)    \* 'deepCopy'
DeepCloneStr == Str(3)   \* 'deepClone'

Prop(n, v, e) == [name |-> n, value |-> v, enumerable |-> e]
HeapObject(p, own) == [proto |-> p, own |-> own]
\* the own property maps of $collection and $users
OwnMaps ==
    {<< >>, <<Prop("n", Obj(Nested), TRUE)>>}
    \cup {<<Prop("a", Num(v), e)>> : v \in {1, 2}, e \in BOOLEAN}
    \cup {<<Prop("a", Num(v), TRUE), Prop("n", Obj(Nested), TRUE)>> : v \in {1, 2}}
Heaps ==
    {<<HeapObject(NullV, << >>),
       HeapObject(Obj(HeapObjectPrototype), <<Prop("copy", Fn(0), FALSE)>>),
       HeapObject(Obj(HeapObjectPrototype), <<Prop("k", Num(7), TRUE)>>),
       HeapObject(Obj(HeapRoot), c),
       HeapObject(Obj(Collection), u),
       HeapObject(Obj(HeapObjectPrototype), p)>> :
          c \in OwnMaps, u \in OwnMaps, p \in {<< >>, <<Prop("a", Num(3), TRUE)>>}}

\* the values passed to copy, and the argument lists: at most one of a kind
ArgValues ==
    {DeepCopyStr, DeepCloneStr, Obj(Parent), Num(0), Num(1), Num(2), Bool(TRUE), Bool(FALSE)}
ArgLists ==
    {as \in UNION {[1..n -> ArgValues] : n \in 0..MaxArgs} :
        \A i, j \in DOMAIN as : i # j => TypeOf(as[i]) # TypeOf(as[j])}

\* the own property of the object o named n, NoProp when there is none
OwnProp(h, o, n) ==
    IF \E i \in DOMAIN h[o].own : h[o].own[i].name = n
    THEN h[o].own[CHOOSE i \in DOMAIN h[o].own : h[o].own[i].name = n]
    ELSE NoProp
\* Object.defineProperty(o, p.name, descriptor of p)
DefineOwn(h, o, p) ==
    IF OwnProp(h, o, p.name) = NoProp
    THEN [h EXCEPT ![o].own = Append(@, p)]
    ELSE [h EXCEPT ![o].own = [i \in DOMAIN @ |-> IF @[i].name = p.name THEN p ELSE @[i]]]
\* Object.create(p): the heap with the new object, which is Len of the result
Allocate(h, p) == Append(h, HeapObject(p, << >>))

\* copy, lines 373-384.  The function is not strict, so its parameters are
\* the first elements of `arguments`: writing a parameter that was passed
\* writes the argument at its position.  p is <<deepMethod, rootPrototype,
\* parentsLevel, mixParents>>.
Positional(as) == [i \in 1..4 |-> IF i <= Len(as) THEN as[i] ELSE Undef]
Slot(v) ==
    CASE TypeOf(v) = "string" -> 1
      [] TypeOf(v) = "object" -> 2
      [] TypeOf(v) = "number" -> 3
      [] TypeOf(v) = "boolean" -> 4
      [] OTHER -> 0
RECURSIVE ByType(_, _, _)
ByType(p, i, n) ==
    IF i > n THEN p
    ELSE ByType(IF Slot(p[i]) = 0 THEN p ELSE [p EXCEPT ![Slot(p[i])] = p[i]], i + 1, n)
CopyParams(as) == ByType(Positional(as), 1, Len(as))

\* lines 386-388
DeepMethod(dm) == IF dm # DeepCopyStr \/ dm # DeepCloneStr THEN NullV ELSE dm
\* lines 390-394 (no function is passed as rootPrototype here)
RootPrototype(rp) == IF rp = Undef THEN Obj(HeapRoot) ELSE rp
\* Object.create throws unless it is given an object or null
CreateFails(rp) == ~(IsObj(rp) \/ rp = NullV)

\* ToNumber(x) - 1, as parentsLevel-- leaves it
ToNumber(x) ==
    CASE x.t = "number" -> x.v
      [] x.t = "boolean" -> x.v
      [] x.t = "null" -> 0
      [] OTHER -> -1
IsNaN(x) == x.t \in {"undefined", "string", "object", "function", "nan"}
Decrement(x) == IF IsNaN(x) THEN NaN ELSE Num(ToNumber(x) - 1)

\* $object.deepCopy.call(v) and $object.deepClone.call(v), lines 436-474, for
\* an object v whose own properties hold no objects: a new plain object with
\* copies of v's properties, or a clone of v
DeepValue(h, dm, v) ==
    IF dm = DeepCopyStr
    THEN [Allocate(h, Obj(HeapObjectPrototype)) EXCEPT ![Len(h) + 1].own = h[v.v].own]
    ELSE Allocate(h, v)

\* lines 412-421: the own properties of the source s are defined on u
RECURSIVE CopyProps(_, _, _, _, _)
CopyProps(h, ps, u, dm, s) ==
    IF ps = << >> THEN h
    ELSE LET p == Head(ps)
             deep == Truthy(dm) /\ TypeOf(p.value) = "object"
             h1 == IF deep THEN DeepValue(h, dm, p.value) ELSE h
             q == IF deep THEN [p EXCEPT !.value = Obj(Len(h1))] ELSE p
         IN  CopyProps(DefineOwn(h1, u, q), Tail(ps), u, dm, s)

\* the do-while of lines 400-424: s is sourceObj, u is updateObj, pl is
\* parentsLevel
RECURSIVE CopyLevels(_, _, _, _, _, _)
CopyLevels(h, s, u, pl, mix, dm) ==
    LET names == h[s].own
        fresh == ~Truthy(mix) /\ names # << >>
        h1 == IF fresh THEN Allocate(h, Obj(u)) ELSE h
        u1 == IF fresh THEN Len(h1) ELSE u
        h2 == CopyProps(h1, names, u1, dm, s)
        next == h[s].proto
    IN  IF Truthy(pl) /\ next # Obj(HeapObjectPrototype)
        THEN CopyLevels(h2, next.v, u1, Decrement(pl), mix, dm)
        ELSE h2

\* one call of copy, as it is recorded
CopyCall(self, as, h) ==
    LET p == CopyParams(as)
        root == RootPrototype(p[2])
    IN  [op |-> "copy", self |-> self, args |-> as, params |-> p,
         deepMethod |-> DeepMethod(p[1]), root |-> root,
         status |-> IF CreateFails(root) THEN "threw" ELSE "returned",
         result |-> IF CreateFails(root) THEN 0 ELSE Len(h) + 1]

\* self.copy(as...), lines 373-427
CopyOn(self, as) ==
    LET c == CopyCall(self, as, heap)
    IN  /\ copied' = Append(copied, c)
        /\ heap' = IF c.status = "threw" THEN heap
                   ELSE CopyLevels(Allocate(heap, c.root), self, Len(heap) + 1,
                                   c.params[3], c.params[4], c.deepMethod)
        /\ UNCHANGED <<cvars, dvars>>

Copy(self, as) ==
    /\ copied = << >>
    /\ CopyOn(self, as)

\* the call made last is made again
CopyAgain ==
    /\ copied # << >> /\ Len(copied) < MaxCopies
    /\ copied[Len(copied)].op = "copy"
    /\ CopyOn(copied[Len(copied)].self, copied[Len(copied)].args)

CopyInit ==
    /\ CoreInit
    /\ raw = << >>
    /\ defaults = [given |-> FALSE, enumerable |-> NoProp]
    /\ descs = << >>
    /\ phase = "idle"
    /\ installed = << >>
    /\ heap \in Heaps
    /\ copied = << >>


\* the argument of the given type in an argument list, undefined if none
OfType(as, type) ==
    IF \E i \in DOMAIN as : TypeOf(as[i]) = type
    THEN as[CHOOSE i \in DOMAIN as : TypeOf(as[i]) = type] ELSE Undef
Reorderings(as) == {bs \in ArgLists : Len(bs) = Len(as) /\ Range(bs) = Range(as)}

\* C17: copy binds its arguments by type whatever their positions: the string
\* to deepMethod, the object to rootPrototype, the number to parentsLevel, the
\* boolean to mixParents, nothing else to any of them; so every permutation
\* of the arguments gives the same parameters.
C17_CopyArgsByType ==
    \A i \in DOMAIN copied :
        copied[i].op = "copy"
            => /\ copied[i].params = <<OfType(copied[i].args, "string"), OfType(copied[i].args, "object"),
                                       OfType(copied[i].args, "number"), OfType(copied[i].args, "boolean")>>
               /\ \A bs \in Reorderings(copied[i].args) : CopyParams(bs) = copied[i].params

\* the source levels copy walks from s with parentsLevel pl, most derived first
RECURSIVE Walked(_, _, _)
Walked(h, s, pl) ==
    IF Truthy(pl) /\ h[s].proto # Obj(HeapObjectPrototype)
    THEN <<s>> \o Walked(h, h[s].proto.v, Decrement(pl))
    ELSE <<s>>
\* the objects from o upwards, n of them
RECURSIVE Upwards(_, _, _)
Upwards(h, o, n) ==
    IF n = 0 \/ ~IsObj(o) THEN << >> ELSE <<o.v>> \o Upwards(h, h[o.v].proto, n - 1)
\* the object n hops above o
RECURSIVE Above(_, _, _)
Above(h, o, n) == IF n = 0 \/ ~IsObj(o) THEN o ELSE Above(h, h[o.v].proto, n - 1)

\* the call i is copy() or copy(k), which returned
PlainCopy(i) ==
    /\ copied[i].op = "copy" /\ copied[i].status = "returned"
    /\ copied[i].args = << >> \/ (Len(copied[i].args) = 1 /\ copied[i].args[1].t = "number")

\* C18: copy() returns a new object with exactly the source's own properties
\* whose chain leads to $object without passing through the source; with
\* parentsLevel = k (mixParents false) the returned object's chain holds one
\* copied level per walked source level, most derived nearest the returned
\* object, and then $object.
C18_CopyKeepsOwnProperties ==
    \A i \in DOMAIN copied :
        PlainCopy(i) /\ i = Len(copied)
            => LET r == copied[i].result
                   src == Walked(heap, copied[i].self, copied[i].params[3])
                   new == Upwards(heap, Obj(r), Len(src))
               IN  /\ r # copied[i].self
                   /\ heap[r].own = heap[copied[i].self].own
                   /\ (\A j \in DOMAIN src : heap[src[j]].own # << >>)
                        => /\ Len(new) = Len(src)
                           /\ \A j \in DOMAIN src : heap[new[j]].own = heap[src[j]].own
                           /\ Above(heap, Obj(r), Len(src)) = Obj(HeapRoot)

\* the objects the call i of copy made, and the objects their properties hold
MadeBy(i) ==
    copied[i].result .. (IF i < Len(copied) THEN copied[i + 1].result - 1 ELSE Len(heap))
NestedValues(i) ==
    {p.value : p \in {q \in UNION {Range(heap[o].own) : o \in MadeBy(i)} : IsObj(q.value)}}
OwnNames(i) == {p.name : p \in UNION {Range(heap[o].own) : o \in MadeBy(i)}}
DeepAsked(i) == OfType(copied[i].args, "string") \in {DeepCopyStr, DeepCloneStr}

\* C19: with deepMethod 'deepCopy' or 'deepClone' the object-valued properties
\* of a copy hold fresh objects, not the source's nested objects, and two such
\* copies of one source share no nested object; without a deepMethod the
\* nested objects are shared with the source; in both modes two successive
\* copies of a source have the same own property names.
C19_DeepModesCopyNested ==
    \A i \in DOMAIN copied :
        copied[i].op = "copy" /\ copied[i].status = "returned"
            => /\ DeepAsked(i) => Obj(Nested) \notin NestedValues(i)
               /\ ~DeepAsked(i) => NestedValues(i) \subseteq {Obj(Nested)}
               /\ \A j \in DOMAIN copied :
                     j # i => /\ OwnNames(j) = OwnNames(i)
                              /\ DeepAsked(i) => NestedValues(i) \cap NestedValues(j) = {}

\* ---- mix (the 0.6.0 revision of the file)
\* an array of objects passed as objectToMix
Arr(k) == [t |-> "array", v |-> k]
Elements(a) == IF a.v = 1 THEN <<Collection, Users>> ELSE <<Users, Collection>>
MixArgLists ==
    {<<o, pl, cn>> : o \in {Arr(1), Arr(2), Obj(Users)},
                     pl \in {Undef, Num(0), Num(1), Bool(FALSE)},
                     cn \in {Undef, Bool(TRUE), Bool(FALSE)}}

\* lines 1056-1061: <<parentsLevel, copyNesting>> after the defaults
MixParams(pl, cn) ==
    IF cn = Undef
    THEN IF TypeOf(pl) = "boolean" THEN <<Num(0), pl>> ELSE <<pl, Bool(TRUE)>>
    ELSE <<pl, cn>>
\* lines 1066-1070: the object and its parents, while parentsLevel lasts
RECURSIVE Parents(_, _, _)
Parents(h, o, pl) ==
    IF Truthy(pl) /\ h[o].proto # Obj(HeapObjectPrototype)
    THEN <<o>> \o Parents(h, h[o].proto.v, Decrement(pl))
    ELSE <<o>>
\* line 1073
Reverse(s) == [i \in DOMAIN s |-> s[Len(s) + 1 - i]]
\* lines 1063-1073
MixedObjects(h, o, pl) ==
    Reverse(IF o.t = "array" THEN Elements(o) ELSE Parents(h, o.v, pl))

MixClonesAlways(cn, names) == Truthy(cn)
\* line 1086: whether a source gets a clone of updateObj of its own
MixClones(cn, names) == Truthy(cn) /\ names # << >>
\* lines 1075-1096: the heap and updateObj after the sources were applied
RECURSIVE MixLevels(_, _, _, _)
MixLevels(h, objs, u, cn) ==
    IF objs = << >> THEN [heap |-> h, updateObj |-> u]
    ELSE LET names == h[Head(objs)].own
             fresh == MixClones(cn, names)
             h1 == IF fresh THEN Allocate(h, Obj(u)) ELSE h
             u1 == IF fresh THEN Len(h1) ELSE u
         IN  MixLevels(CopyProps(h1, names, u1, NullV, Head(objs)), Tail(objs), u1, cn)

\* self.mix(objectToMix, parentsLevel, copyNesting), lines 1047-1099
Mix(self, as) ==
    /\ copied = << >>
    /\ LET p == MixParams(as[2], as[3])
           done == MixLevels(heap, MixedObjects(heap, as[1], p[1]), self, p[2])
       IN  /\ heap' = done.heap
           /\ copied' = <<[op |-> "mix", self |-> self, args |-> as,
                           params |-> <<as[1], p[1], p[2], Undef>>,
                           deepMethod |-> NullV, root |-> Undef,
                           status |-> "returned", result |-> done.updateObj]>>
    /\ UNCHANGED <<cvars, dvars>>

\* ---- getState, lines 314-322
\* $object.create() without arguments: the constructor CloneObject finds
\* this.constructor === CloneObject and seals the new object (lines 109-111)
StateExtensible == FALSE
\* line 316: Object.getOwnPropertyNames(this) or Object.keys(this)
OwnProperties(h, o, listPrivate) ==
    SelectSeq(h[o].own, LAMBDA p : Truthy(listPrivate) \/ p.enumerable)
\* o[n] = v in sloppy mode: an own property is written, a new one is added
\* unless o is not extensible, and then the assignment is ignored
AssignOwn(h, o, n, v, extensible) ==
    IF OwnProp(h, o, n) # NoProp
    THEN [h EXCEPT ![o].own = [i \in DOMAIN @ |-> IF @[i].name = n THEN [@[i] EXCEPT !.value = v] ELSE @[i]]]
    ELSE IF extensible THEN [h EXCEPT ![o].own = Append(@, Prop(n, v, TRUE))]
    ELSE h
\* lines 318-320: currentState[name] = this[name] for each listed name
RECURSIVE AssignAll(_, _, _, _)
AssignAll(h, ps, state, extensible) ==
    IF ps = << >> THEN h
    ELSE AssignAll(AssignOwn(h, state, Head(ps).name, Head(ps).value, extensible),
                   Tail(ps), state, extensible)

\* self.getState(listPrivate)
GetState(self, listPrivate) ==
    /\ copied = << >>
    /\ heap' = AssignAll(Allocate(heap, Obj(HeapRoot)), OwnProperties(heap, self, listPrivate),
                         Len(heap) + 1, StateExtensible)
    /\ copied' = <<[op |-> "getState", self |-> self, args |-> <<listPrivate>>,
                    params |-> <<listPrivate, Undef, Undef, Undef>>,
                    deepMethod |-> NullV, root |-> Undef,
                    status |-> "returned", result |-> Len(heap) + 1]>>
    /\ UNCHANGED <<cvars, dvars>>

CopyNext ==
    \/ \E self \in {Collection, Users}, as \in ArgLists : Copy(self, as)
    \/ CopyAgain
    \/ \E as \in MixArgLists : Mix(Parent, as)
    \/ \E self \in {Collection, Users}, lp \in {Undef, Bool(TRUE), Bool(FALSE)} : GetState(self, lp)

CopySpec == CopyInit /\ [][CopyNext]_vars

\* the property named n that reading o[n] finds: o's own or the nearest
\* ancestor's, NoProp when there is none
RECURSIVE Lookup(_, _, _)
Lookup(h, o, n) ==
    IF OwnProp(h, o, n) # NoProp THEN OwnProp(h, o, n)
    ELSE IF IsObj(h[o].proto) THEN Lookup(h, h[o].proto.v, n)
    ELSE NoProp
\* the call i is mix([Src1, Src2], ...)
MixOfTwo(i) == copied[i].op = "mix" /\ copied[i].args[1].t = "array"

\* C20: after mix([Src1, Src2]) a key that both sources own reads, on the
\* result, as Src2's value (the later source wins), with copyNesting and
\* without.
C20_LaterSourceWins ==
    \A i \in DOMAIN copied :
        MixOfTwo(i)
            => LET src == Elements(copied[i].args[1])
               IN  \A n \in {"a", "n"} :
                      OwnProp(heap, src[1], n) # NoProp /\ OwnProp(heap, src[2], n) # NoProp
                          => Lookup(heap, copied[i].result, n).value = OwnProp(heap, src[2], n).value

\* the running method, on an instance create() sealed, is about to dispatch
SealedAtDispatch == AtDispatch /\ Top.kind = "method" /\ sealed[Top.self]

\* C25: an instance create() made under the default constructor (a sealed
\* one) runs an inherited method that dispatches: its first dispatch raises no
\* error for the attempt to add a property, and every dispatch it makes
\* reaches a method and leaves the instance's cursor one level above the level
\* it reached.
C25_SealedInstanceDispatches ==
    [][SealedAtDispatch
          => /\ last'.error # "NotExtensible"
             /\ Len(stack') > Len(stack)
                   => ReadSuper(cursor', Top.self) = ProtoOf(stack'[Len(stack) + 1].saved)]_vars

\* the objects above o on its chain
Ancestors(o) == ChainOf(o) \ {o}

\* the level a first dispatch of m from o reaches
FirstLevel(o) == MethodHolder(Grandparent(o).v, "m")

\* a callback is running that was wrapped while its object had no cursor in
\* sight and called after a dispatch had given the object a cursor of its own,
\* which held the value that dispatch gave it when the callback was called;
\* a first dispatch from the object reaches a method
EarlyCallback ==
    /\ ~Idle /\ stack[1].kind = "callback"
    /\ ~callback.had /\ ~last.first
    /\ stack[1].saved = Grandparent(stack[1].self)
    /\ ~sealed[stack[1].self]
    /\ \A a \in Ancestors(stack[1].self) : cursor[a] = NoProp
    /\ FirstLevel(stack[1].self) # -1

\* C26: a callback wrapped before its object had a cursor and called after a
\* dispatch created the cursor can dispatch: its dispatch runs the method a
\* first dispatch from the object runs, and when the callback is left the
\* object's cursor is an object of the chain.
C26_EarlyCallbackDispatches ==
    [][/\ EarlyCallback /\ Len(stack) = 2 /\ AtDispatch
          => /\ Len(stack') = 4
             /\ stack'[4].owner = FirstLevel(Top.self)
       /\ EarlyCallback /\ stack' = << >>
          => IsObj(ReadSuper(cursor', stack[1].self))]_vars

\* ------------------------------------------- methods that call one another
\* Two method names, m and n: a body is a sequence of steps, "super" for
\* this._applySuper(<own name>) and "call" for the ordinary call this.n().
MaxNestObj == 3    \* objects made by clone besides $object, two names each

Call1 == <<"call">>
CallFrame(s) == Frame("call", s, 0, "n", << >>, Undef, Undef, FALSE)
NoMethods == [m |-> NoDef, n |-> NoDef, constructor |-> NoDef]
NestedMaps ==
    {[m |-> a, n |-> b, constructor |-> NoDef] :
        a \in {NoDef, Method(Super1), Method(Call1)},
        b \in {NoDef, Method(Leaf), Method(Super1)}}

NestedInit ==
    /\ alive = {ObjectPrototype, RootObject}
    /\ proto = [o \in ObjIds |-> IF o = RootObject THEN Obj(ObjectPrototype) ELSE NullV]
    /\ sealed = [o \in ObjIds |-> FALSE]
    /\ cursor = [o \in ObjIds |-> NoProp]
    /\ props = [o \in ObjIds |->
                  [NoMethods EXCEPT !.constructor =
                      IF o = RootObject THEN CloneObject
                      ELSE IF o = ObjectPrototype THEN HostObject ELSE NoDef]]
    /\ extra = [o \in ObjIds |-> FALSE]
    /\ stack = << >>
    /\ log = << >>
    /\ callback = NoCallback
    /\ last = NoCall
    /\ raw = << >>
    /\ defaults = [given |-> FALSE, enumerable |-> NoProp]
    /\ descs = << >>
    /\ phase = "idle"
    /\ installed = << >>
    /\ heap = << >>
    /\ copied = << >>

\* this.n() inside a running method: the method is looked up along the
\* receiver's chain and applied to the receiver; the cursor is not touched
MethodCall ==
    /\ ~Idle
    /\ Top.kind = "method"
    /\ Top.ops # << >>
    /\ Head(Top.ops) = "call"
    /\ LET s == Top.self
       IN  IF MethodHolder(s, "n") = -1 THEN Throw(cursor, "NotAFunction")
           ELSE IF Len(stack) + 2 > MaxStack THEN Throw(cursor, "StackOverflow")
           ELSE /\ stack' = Append2(stack, CallFrame(s), MethodFrame(s, MethodHolder(s, "n"), "n"))
                /\ log' = Logged(log, MethodHolder(s, "n"))
                /\ UNCHANGED <<cursor, last>>
    /\ UNCHANGED <<alive, proto, sealed, props, extra, callback, dvars, kvars>>

\* the method this.n() applied has returned
CallReturn ==
    /\ ~Idle
    /\ Top.kind = "call"
    /\ LET st == Pop(stack)
       IN  stack' = [st EXCEPT ![Len(st)].ops = Tail(@)]
    /\ UNCHANGED <<alive, proto, sealed, cursor, props, extra, log, callback, last, dvars, kvars>>

\* top-level code calls m or n on the newest object of the chain
FewNested == Cardinality(UserObjects) < MaxNestObj
NestedNext ==
    \/ \E parent \in ObjIds, pm \in NestedMaps : FewNested /\ Clone(parent, pm)
    \/ \E o \in Receivers, name \in {"m", "n"} : Invoke(o, name)
    \/ SuperCall
    \/ MethodCall
    \/ MethodReturn
    \/ SuperReturn
    \/ CallReturn

NestedSpec == NestedInit /\ [][NestedNext]_vars

\* the most-derived n, called by this.n() from a method that was reached
\* through dispatch, is about to dispatch; the receiver is a clone, without an
\* n of its own, of the most-derived level defining n, it had no cursor in
\* sight when the top-level call was made, and a level above defines n
NestedDispatch ==
    /\ AtDispatch /\ Top.kind = "method" /\ Top.name = "n"
    /\ Len(stack) >= 4 /\ Len(stack) + 2 <= MaxStack
    /\ stack[Len(stack) - 1].kind = "call"
    /\ stack[Len(stack) - 2].kind = "method"
    /\ stack[Len(stack) - 3].kind = "super"
    /\ last.first
    /\ Top.owner = proto[Top.self].v
    /\ MethodHolder(proto[Top.owner].v, "n") # -1

\* C24: the level a dispatch reaches does not depend on a dispatch being in
\* progress on the same object: when a method reached through dispatch calls
\* this.n() and the most-derived n dispatches, the n of the level immediately
\* above the most-derived level defining n is run, as when n is called while
\* no dispatch is active.
C24_DispatchLevelIndependent ==
    [][NestedDispatch
          => /\ Len(stack') = Len(stack) + 2
             /\ stack'[Len(stack')].owner = MethodHolder(proto[Top.owner].v, "n")]_vars

\* the call i is getState(listPrivate)
StateOf(i) == copied[i].op = "getState"

\* C23: getState() returns a separate object whose own properties are exactly
\* the receiver's own enumerable properties with the same values, and all of
\* the receiver's own properties when listPrivate is true.
C23_StateHoldsOwnProperties ==
    \A i \in DOMAIN copied :
        StateOf(i)
            => LET r == copied[i].result
                   o == copied[i].self
                   listed == {p \in Range(heap[o].own) : copied[i].args[1] = Bool(TRUE) \/ p.enumerable}
               IN  /\ r # o
                   /\ {[name |-> p.name, value |-> p.value] : p \in Range(heap[r].own)}
                        = {[name |-> p.name, value |-> p.value] : p \in listed}

\* the call i is a copy that returned, with mixParents true and a parentsLevel
\* that lets it walk at least one parent
FlatCopy(i) ==
    /\ copied[i].op = "copy" /\ copied[i].status = "returned"
    /\ Truthy(copied[i].params[4]) /\ Truthy(copied[i].params[3])

\* C27: after copy with mixParents = true and parentsLevel >= 1 a key that
\* more than one walked level owns is, on the flattened result, the property
\* of the most derived of these levels: the one the source object resolves the
\* key to.
C27_FlatCopyKeepsMostDerived ==
    \A i \in DOMAIN copied :
        FlatCopy(i)
            => LET src == Walked(heap, copied[i].self, copied[i].params[3])
               IN  \A n \in {"a", "n"} :
                      Cardinality({j \in DOMAIN src : OwnProp(heap, src[j], n) # NoProp}) > 1
                          => OwnProp(heap, copied[i].result, n) = Lookup(heap, copied[i].self, n)

\* mix is called in this step
MixStep == copied = << >> /\ copied' # << >> /\ copied'[1].op = "mix"
\* the sources of the call, and those that have own properties
MixSources == Range(MixedObjects(heap, copied'[1].args[1], copied'[1].params[2]))
FullSources == {s \in MixSources : heap[s].own # << >>}
\* the objects the step made
MadeNow == (Len(heap) + 1)..Len(heap')

\* copyNesting true: nothing that existed is changed, and the result is the
\* bottom of a chain of new objects, one for each source in `counted` holding
\* that source's own properties, which delegates to the receiver
Nests(counted) ==
    LET r == copied'[1].result
        k == Cardinality(MadeNow)
    IN  /\ SubSeq(heap', 1, Len(heap)) = heap
        /\ k = Cardinality(counted)
        /\ Range(Upwards(heap', Obj(r), k)) = MadeNow
        /\ Above(heap', Obj(r), k) = Obj(copied'[1].self)
        /\ \A s \in counted : \E o \in MadeNow : heap'[o].own = heap[s].own
        /\ \A o \in MadeNow : \E s \in counted : heap'[o].own = heap[s].own

\* copyNesting false: no object is made, the receiver is returned, it owns
\* every property a source owns, as one of the sources defines it, and keeps
\* its other properties
Flattens ==
    LET self == copied'[1].self
    IN  /\ MadeNow = {}
        /\ copied'[1].result = self
        /\ \A o \in DOMAIN heap : o # self => heap'[o] = heap[o]
        /\ \A s \in MixSources : \A p \in Range(heap[s].own) :
              \E t \in MixSources : OwnProp(heap', self, p.name) = OwnProp(heap, t, p.name)
        /\ \A p \in Range(heap[self].own) :
              (\A s \in MixSources : OwnProp(heap, s, p.name) = NoProp)
                  => OwnProp(heap', self, p.name) = p

CustomType == [kind |-> "CustomType", ops |-> << >>, ret |-> Undef]
TypeMaps == CtorMaps \cup {[m |-> NoDef, constructor |-> CustomType]}

\* what Object(...) returns when it is applied as a function: a plain object
\* outside the store
PlainObject == [t |-> "object", v |-> -1]

\* '__super__' in o and o.__super__ for the object o that create() has just
\* made from par; it has no own property yet but the cursor c[o]
NewHasSuper(c, o, par) == c[o] # NoProp \/ HasSuper(c, par)
NewReadSuper(c, o, par) == IF c[o] # NoProp THEN c[o] ELSE ReadSuper(c, par)

\* line 212, reached from CustomType: arguments[0] is CustomType's `arguments`
\* object, and an Arguments object is not an instance of Array
ArgumentsIsArray == FALSE
\* lines 211-216: the args _applySuper(arguments) applies the method with,
\* as "the properties object is passed" (TRUE) or "nothing is passed"
DispatchedArgs(given) == IF ArgumentsIsArray THEN given ELSE FALSE

\* The constructor found from `level` applied to the new object o (made from
\* par) with or without a properties object: the cursor map it leaves,
\* whether it installs the properties on o, whether it seals o, what it
\* returns, and the error it ends with ("" when it returns).
RECURSIVE ApplyCtor(_, _, _, _, _)
RECURSIVE ApplySuperCtor(_, _, _, _)
ApplyCtor(c, o, par, level, given) ==
    LET k == props[MethodHolder(level, "constructor")].constructor
        done == [cursor |-> c, installs |-> FALSE, seals |-> FALSE, ret |-> Undef, error |-> ""]
    IN  CASE k.kind = "CloneObject" ->
                [done EXCEPT !.installs = given, !.seals = DefaultSeals(par)]
          [] k.kind = "ctor" -> [done EXCEPT !.ret = k.ret]
          [] k.kind = "CustomType" -> ApplySuperCtor(c, o, par, DispatchedArgs(given))
          [] OTHER -> [done EXCEPT !.ret = PlainObject]

\* this._applySuper(arguments) on the new object o, lines 210-240 with
\* methodName 'constructor'
ApplySuperCtor(c, o, par, given) ==
    LET c1 == IF NewHasSuper(c, o, par) THEN c ELSE [c EXCEPT ![o] = proto[par]]
        saved == NewReadSuper(c1, o, par)
        failed == [cursor |-> c1, installs |-> FALSE, seals |-> FALSE, ret |-> Undef,
                   error |-> "NotAnObject"]
    IN  IF ~IsObj(saved) THEN failed
        ELSE LET r == ApplyCtor([c1 EXCEPT ![o] = ProtoOf(saved)], o, par, saved.v, given)
             IN  IF r.error # "" THEN r
                 ELSE [r EXCEPT !.cursor = [r.cursor EXCEPT ![o] = saved]]

\* create(properties) and create(): var obj = this.clone();
\* return obj.constructor.apply(obj, arguments) || obj
CreateWith(parent, given) ==
    /\ Idle
    /\ alive # ObjIds
    /\ parent \in Receivers
    /\ LET o == Fresh
           r == ApplyCtor(cursor, o, parent, parent, given)
           op == IF given THEN "createWith" ELSE "create"
       IN  IF r.error # ""
           THEN /\ last' = [Call(op, o, "threw", Undef) EXCEPT !.error = r.error]
                /\ UNCHANGED <<alive, proto, sealed, cursor, extra>>
           ELSE /\ alive' = alive \cup {o}
                /\ proto' = [proto EXCEPT ![o] = Obj(parent)]
                /\ sealed' = [sealed EXCEPT ![o] = r.seals]
                /\ extra' = [extra EXCEPT ![o] = r.installs]
                /\ cursor' = r.cursor
                /\ last' = Call(op, o, "returned", CreateResult(r.ret, o))
    /\ UNCHANGED <<props, stack, log, callback, dvars, kvars>>

TypeNext ==
    \/ \E parent \in ObjIds, pm \in TypeMaps : Clone(parent, pm)
    \/ \E parent \in ObjIds, given \in BOOLEAN : CreateWith(parent, given)

TypeSpec == Init /\ [][TypeNext]_vars

\* create makes the object n in this step, from a type: an object whose own
\* constructor is a CustomType, with no cursor in sight
TypeCreates(n) ==
    /\ last'.op \in {"create", "createWith"} /\ n \notin alive /\ n \in alive'
    /\ props[proto'[n].v].constructor = CustomType
    /\ ~HasSuper(cursor, proto'[n].v)
\* the constructor the parent of the type T resolves to
ParentCtor(T) == props[MethodHolder(proto[T].v, "constructor")].constructor

\* C22: create on a type T = clone(parent, {constructor: '<name>'}) behaves
\* as the parent's constructor applied to the new instance with the same
\* arguments: under the default constructor the instance is returned,
\* delegates to T and owns the properties that were passed; under a
\* constructor that returns a value, create returns what it returns for that
\* value.
C22_TypeCreateAppliesParentCtor ==
    [][\A n \in ObjIds :
          TypeCreates(n)
              => /\ last'.status = "returned"
                 /\ proto'[n].v \in Receivers
                 /\ ParentCtor(proto'[n].v) = CloneObject
                       => /\ last'.value = Obj(n)
                          /\ extra'[n] <=> (last'.op = "createWith")
                 /\ ParentCtor(proto'[n].v).kind = "ctor"
                       => last'.value = CreateResult(ParentCtor(proto'[n].v).ret, n)]_vars

====
